---------------------------- MODULE Spec2Model ----------------------------
(***************************************************************************)
(* UDS server of canbus-dev-utils (src/src/uds/uds_server.py): the         *)
(* request-processing step UDSServer.run(), its two service handlers and   *)
(* the Data Identifier Store self.data.                                     *)
(*                                                                         *)
(* Bytes are integers 0..255, a frame (Python bytes) is a sequence of      *)
(* bytes, the store (a Python dict) is a function from its keys to frames. *)
(* A Python exception leaving run() is recorded in `raised`; nothing       *)
(* catches it, so the driver loop ends there.                              *)
(***************************************************************************)
EXTENDS Integers, Sequences, FiniteSets, TLC

VARIABLES
    data,       \* self.data: DID -> record
    recv,       \* outcome of the last self.server.recv(): timeout or a frame
    sent,       \* frames handed to self.server.send() by the last step, in order
    raised,     \* exception that left run(), "none" while the server lives
    called,     \* handler the last step invoked, "none" if it invoked none (history)
    initial,    \* self.data as __init__ left it (history)
    written,    \* DIDs for which "Updating DID" was logged (history)
    registry,   \* self.service_handlers: SID -> handler
    last_write, \* DID -> request bytes 3 onward of the last write accepted for it (history)
    repeated,   \* the last step received what the step before it received (history)
    pc,         \* where main() is: "while", "run", "recv", "rest", "sleep", "stopped", "crashed"
    exit_flag,  \* exit_flag.is_set()
    pending,    \* frames received minus responses sent (history)
    late_steps, \* calls of run() made with exit_flag already set (history)
    impl,       \* the class the servers of the process are instances of
    heap,       \* two servers in one process: the dict objects, by name
    store,      \* two servers in one process: the dict each server's store is
    actor,      \* two servers in one process: the server that ran the last step
    library,    \* the classes side by side: the library server's store, exception, responses
    standalone, \* the classes side by side: the standalone server's
    fed         \* the classes side by side: the outcomes of recv() so far

serverVars == <<data, recv, sent, raised, called, initial, written,
                registry, last_write, repeated>>

driverVars == <<pc, exit_flag, pending, late_steps>>

processVars == <<impl, heap, store, actor>>

pairVars == <<library, standalone, fed>>

vars == <<serverVars, driverVars, processVars, pairVars>>

--------------------------------------------------------------------------
(* Bounds of the model *)

\* longest write payload (request bytes 3 onward) the transport delivers
MaxPayload == 2

\* byte values used in payloads
PayloadBytes == {65}

\* first bytes of the frames of Requests:
\* 0x00, 0x10 (in ServiceID, no handler), 0x22, 0x2E, 0x99 (not in ServiceID), 0xFF
SidBytes == {0, 16, 34, 46, 153, 255}

\* byte values used at offset 1 (DID_hi): 0x00, 0xF1
HiBytes == {0, 241}

\* byte values used at offset 2 (DID_lo): 0x01, 0x90
LoBytes == {1, 144}

Byte == 0..255

RECURSIVE SeqsUpTo(_, _)
SeqsUpTo(S, n) ==
    IF n = 0 THEN {<<>>}
    ELSE LET shorter == SeqsUpTo(S, n - 1)
         IN  shorter \cup {Append(s, b) : s \in shorter, b \in S}

Payloads == SeqsUpTo(PayloadBytes, MaxPayload)

\* the frames recv() returns under Spec: the empty frame and the frames
\* SID [, DID_hi [, DID_lo, payload...]] over the byte sets above
Requests ==
    {<<>>}
    \cup {<<s>> : s \in SidBytes}
    \cup {<<s, hi>> : s \in SidBytes, hi \in HiBytes}
    \cup {<<s, hi, lo>> \o p : s \in SidBytes, hi \in HiBytes,
                               lo \in LoBytes, p \in Payloads}

\* the frames recv() returns under SpecAnySid: every first byte 0..255, alone
\* and followed by the DID 0x0001
AnySidRequests ==
    {<<b>> : b \in Byte} \cup {<<b, 0, 1>> : b \in Byte}

Repeat(n, b) == [i \in 1..n |-> b]

--------------------------------------------------------------------------
(* uds_common.ServiceID *)

DIAGNOSTIC_SESSION_CONTROL == 16
READ_DATA_BY_IDENTIFIER == 34
WRITE_DATA_BY_IDENTIFIER == 46

\* the values of the enumeration; ServiceID(x) raises ValueError for any other x
ServiceID == {16, 17, 34, 42, 44, 46, 47, 49, 52, 54, 53, 55, 39, 40}

--------------------------------------------------------------------------
(* UDSServer *)

\* bytearray('5YJSA1DG9DFP14705', 'utf-8')
VIN == <<53, 89, 74, 83, 65, 49, 68, 71, 57, 68, 70, 80, 49, 52, 55, 48, 53>>

\* UDSServer.DUMMY_DATA: 0x0001, 0x0007, 0x0030, 0xF190
DUMMY_DATA ==
    [did \in {1, 7, 48, 61840} |->
        CASE did = 1     -> <<1>>
          [] did = 7     -> Repeat(7, 7)
          [] did = 48    -> Repeat(200, 48)
          [] did = 61840 -> VIN]

EmptyDict == [did \in {} |-> <<>>]

\* the uds_data argument left at its default, None
None == [is_none |-> TRUE, dict |-> EmptyDict]

\* the uds_data argument given as the dict d
Dict(d) == [is_none |-> FALSE, dict |-> d]

\* the uds_data arguments the constructor is called with: None, the empty
\* dict, and the dict of the module's docstring with 0x1234 replaced by 0x0090
UdsDataArgs ==
    { None,
      Dict(EmptyDict),
      Dict([did \in {144, 22136} |-> IF did = 144 THEN <<1, 2, 3, 4>> ELSE <<5, 6, 7, 8>>]) }

\* mutant: DiagnosticSessionControl registered as well, served by the read handler
service_handlers_with_session_control ==
    [sid \in {DIAGNOSTIC_SESSION_CONTROL, READ_DATA_BY_IDENTIFIER,
              WRITE_DATA_BY_IDENTIFIER} |->
        IF sid = WRITE_DATA_BY_IDENTIFIER THEN "_handle_write_data_by_id"
                                          ELSE "_handle_read_data_by_id"]

\* self.service_handlers: the SIDs that have a handler, and the handler of each
service_handlers ==
    [sid \in {READ_DATA_BY_IDENTIFIER, WRITE_DATA_BY_IDENTIFIER} |->
        IF sid = READ_DATA_BY_IDENTIFIER THEN "_handle_read_data_by_id"
                                         ELSE "_handle_write_data_by_id"]

\* n.to_bytes(length=length, byteorder='big'); Python raises OverflowError
\* when n does not fit
to_bytes_overflows(n, length) == n < 0 \/ n >= 256 ^ length

\* mutant: byteorder='little'
to_bytes_little(n, length) == [i \in 1..length |-> (n \div (256 ^ (i - 1))) % 256]

to_bytes(n, length) == [i \in 1..length |-> (n \div (256 ^ (length - i))) % 256]

\* raw_request[i] raises IndexError unless 0 <= i < len(raw_request)
IndexInRange(raw_request, i) == 0 <= i /\ i < Len(raw_request)

\* mutant: self.data = {k: v}, a new dict in place of the item assignment
DictRebind(d, k, v) == [x \in {k} |-> v]

\* mutant: self.data[k] += v, the record is extended in place
DictExtendItem(d, k, v) ==
    [x \in DOMAIN d \cup {k} |->
        IF x = k THEN (IF k \in DOMAIN d THEN d[k] ELSE <<>>) \o v ELSE d[x]]

\* d[k] = v on a dict: binds k, adding the key when it is absent
DictSetItem(d, k, v) == [x \in DOMAIN d \cup {k} |-> IF x = k THEN v ELSE d[x]]

\* mutant: raw_request[2:]
SliceFrom2(raw_request) == SubSeq(raw_request, 3, Len(raw_request))

\* mutant: raw_request[3:4]
SliceOne(raw_request) == SubSeq(raw_request, 4, IF Len(raw_request) >= 4 THEN 4 ELSE 3)

\* raw_request[3:]
SliceFrom3(raw_request) == SubSeq(raw_request, 4, Len(raw_request))

\* request bytes 3 onward, read off the wire one by one
PayloadOf(raw) == [i \in 1..(Len(raw) - 3) |-> raw[i + 3]]

\* the history of accepted writes with one more: did was written with v
Logged(log, did, v) == [x \in DOMAIN log \cup {did} |-> IF x = did THEN v ELSE log[x]]

\* the server object during one run(): st.data, what was sent, what was raised
Raise(st, exc) == [st EXCEPT !.raised = exc]

Send(st, frame) == [st EXCEPT !.sent = Append(@, frame)]

get_sid_raises(raw_request) == ~IndexInRange(raw_request, 0)

get_sid(raw_request) == raw_request[1]

get_did_raises(raw_request) ==
    ~IndexInRange(raw_request, 1) \/ ~IndexInRange(raw_request, 2)

\* mutant: the DID decoded little-endian, raw_request[1] + (raw_request[2] << 8)
get_did_little(raw_request) == raw_request[2] + (raw_request[3] * 256)

get_did(raw_request) == (raw_request[2] * 256) + raw_request[3]

_send_negative_response(st, rej_sid) ==
    IF to_bytes_overflows(rej_sid, 1) THEN Raise(st, "OverflowError")
    ELSE Send(st, <<127>> \o to_bytes(rej_sid, 1) \o <<16>>)

\* mutant: the read consumes the record (leaves it empty)
_handle_read_and_clear(st, raw_request) ==
    IF get_did_raises(raw_request) THEN Raise(st, "IndexError")
    ELSE LET did == get_did(raw_request)
         IN  IF did \notin DOMAIN st.data
             THEN _send_negative_response(st, get_sid(raw_request))
             ELSE Send([st EXCEPT !.data = DictSetItem(@, did, <<>>)],
                       <<98>> \o to_bytes(did, 2) \o st.data[did])

_handle_read_data_by_id(st, raw_request) ==
    IF get_did_raises(raw_request) THEN Raise(st, "IndexError")
    ELSE LET did == get_did(raw_request)
         IN  IF did \notin DOMAIN st.data
             THEN _send_negative_response(st, get_sid(raw_request))
             ELSE Send(st, <<98>> \o to_bytes(did, 2) \o st.data[did])

\* mutant: no "did not in self.data" check, the write creates the entry
_handle_write_upsert(st, raw_request) ==
    IF get_did_raises(raw_request) THEN Raise(st, "IndexError")
    ELSE LET did == get_did(raw_request)
         IN  Send([st EXCEPT
                      !.data = DictSetItem(@, did, SliceFrom3(raw_request)),
                      !.written = @ \cup {did}],
                   <<110>> \o to_bytes(did, 2))

\* mutant: the positive response carries the written record, as a read's does
_handle_write_echo(st, raw_request) ==
    IF get_did_raises(raw_request) THEN Raise(st, "IndexError")
    ELSE LET did == get_did(raw_request)
         IN  IF did \notin DOMAIN st.data
             THEN _send_negative_response(st, get_sid(raw_request))
             ELSE Send([st EXCEPT
                          !.data = DictSetItem(@, did, SliceFrom3(raw_request)),
                          !.written = @ \cup {did}],
                       <<110>> \o to_bytes(did, 2) \o SliceFrom3(raw_request))

\* mutant: no "return" after the negative response of an unknown DID
_handle_write_no_return(st, raw_request) ==
    IF get_did_raises(raw_request) THEN Raise(st, "IndexError")
    ELSE LET did == get_did(raw_request)
             rejected == IF did \notin DOMAIN st.data
                         THEN _send_negative_response(st, get_sid(raw_request))
                         ELSE st
         IN  Send([rejected EXCEPT
                      !.data = DictSetItem(@, did, SliceFrom3(raw_request)),
                      !.written = @ \cup {did},
                      !.last_write = Logged(@, did, PayloadOf(raw_request))],
                   <<110>> \o to_bytes(did, 2))

_handle_write_data_by_id(st, raw_request) ==
    IF get_did_raises(raw_request) THEN Raise(st, "IndexError")
    ELSE LET did == get_did(raw_request)
         IN  IF did \notin DOMAIN st.data
             THEN _send_negative_response(st, get_sid(raw_request))
             ELSE Send([st EXCEPT
                          !.data = DictSetItem(@, did, SliceFrom3(raw_request)),
                          !.written = @ \cup {did},
                          !.last_write = Logged(@, did, PayloadOf(raw_request))],
                       <<110>> \o to_bytes(did, 2))

\* mutant: self.service_handlers.pop(sid)(raw_request), a handler serves once
CallHandler_pop(st, sid, raw_request) ==
    LET entered == [st EXCEPT
                      !.called = st.service_handlers[sid],
                      !.service_handlers = [x \in DOMAIN @ \ {sid} |-> @[x]]]
    IN  IF st.service_handlers[sid] = "_handle_read_data_by_id"
        THEN _handle_read_data_by_id(entered, raw_request)
        ELSE _handle_write_data_by_id(entered, raw_request)

\* self.service_handlers[sid](raw_request)
CallHandler(st, sid, raw_request) ==
    LET entered == [st EXCEPT !.called = st.service_handlers[sid]]
    IN  IF st.service_handlers[sid] = "_handle_read_data_by_id"
        THEN _handle_read_data_by_id(entered, raw_request)
        ELSE _handle_write_data_by_id(entered, raw_request)

\* mutant: no "except ValueError", ServiceID(x) of an unknown x leaves run()
run_dispatch_uncaught(st, raw_request) ==
    IF get_sid_raises(raw_request) THEN Raise(st, "IndexError")
    ELSE IF get_sid(raw_request) \notin ServiceID THEN Raise(st, "ValueError")
    ELSE LET sid == get_sid(raw_request)
         IN  IF sid \notin DOMAIN st.service_handlers
             THEN _send_negative_response(st, sid)
             ELSE CallHandler(st, sid, raw_request)

\* UDSServer.run() from the decoding of the SID on
run_dispatch(st, raw_request) ==
    IF get_sid_raises(raw_request) THEN Raise(st, "IndexError")
    ELSE IF get_sid(raw_request) \notin ServiceID
    THEN _send_negative_response(st, get_sid(raw_request))
    ELSE LET sid == get_sid(raw_request)
         IN  IF sid \notin DOMAIN st.service_handlers
             THEN _send_negative_response(st, sid)
             ELSE CallHandler(st, sid, raw_request)

\* mutant: no "except TimeoutError", the timeout leaves run()
run_timeout_uncaught(st, r) ==
    IF r.kind = "timeout" THEN Raise(st, "TimeoutError")
    ELSE run_dispatch(st, r.raw)

\* mutant: a timeout is answered with a negative response for SID 0
run_timeout_rejects(st, r) ==
    IF r.kind = "timeout" THEN _send_negative_response(st, 0)
    ELSE run_dispatch(st, r.raw)

\* UDSServer.run(), r the outcome of its self.server.recv()
run(st, r) ==
    IF r.kind = "timeout" THEN st
    ELSE run_dispatch(st, r.raw)

\* self.server.recv() raised TimeoutError
TimedOut == [kind |-> "timeout", raw |-> <<>>]

\* self.server.recv() returned raw_request
Frame(raw_request) == [kind |-> "frame", raw |-> raw_request]

\* recv() has not been called yet
NotYet == [kind |-> "none", raw |-> <<>>]

RecvOutcomes == {TimedOut} \cup {Frame(q) : q \in Requests}

AnySidRecvOutcomes == {TimedOut} \cup {Frame(q) : q \in AnySidRequests}

--------------------------------------------------------------------------
(* The state machine *)

\* UDSServer.__init__(..., uds_data=uds_data)
Construct(uds_data) ==
    /\ data = IF uds_data.is_none THEN DUMMY_DATA ELSE uds_data.dict
    /\ initial = data
    /\ recv = NotYet
    /\ sent = <<>>
    /\ raised = "none"
    /\ called = "none"
    /\ written = {}
    /\ registry = service_handlers
    /\ last_write = [did \in {} |-> <<>>]
    /\ repeated = FALSE
    /\ pc = "while"
    /\ exit_flag = FALSE
    /\ pending = 0
    /\ late_steps = 0

\* neither server of the pair exists
NoPair ==
    /\ library = <<>>
    /\ standalone = <<>>
    /\ fed = <<>>

\* the process holds one server, of the library class
OneServer ==
    /\ impl = "library"
    /\ heap = <<>>
    /\ store = <<>>
    /\ actor = 0

Init == \E uds_data \in UdsDataArgs : Construct(uds_data) /\ OneServer /\ NoPair

\* the server object as run() finds it
Self ==
    [data |-> data, sent |-> <<>>, raised |-> "none", called |-> "none",
     written |-> written, service_handlers |-> registry,
     last_write |-> last_write]

\* the server object as run() leaves it
Becomes(st) ==
    /\ data' = st.data
    /\ sent' = st.sent
    /\ raised' = st.raised
    /\ called' = st.called
    /\ written' = st.written
    /\ registry' = st.service_handlers
    /\ last_write' = st.last_write
    /\ UNCHANGED initial

\* one call of UDSServer.run() by the driver loop, recv() ending in one of
\* `outcomes`; an exception that left an earlier call ended the loop
Step(outcomes) ==
    /\ raised = "none"
    /\ \E r \in outcomes :
        \E st \in {run(Self, r)} :
            /\ recv' = r
            /\ repeated' = (r = recv)
            /\ Becomes(st)
    /\ UNCHANGED <<driverVars, processVars, pairVars>>

Run == Step(RecvOutcomes)

Next == Run

Spec == Init /\ [][Next]_vars

RunAnySid == Step(AnySidRecvOutcomes)

NextAnySid == RunAnySid

SpecAnySid == Init /\ [][NextAnySid]_vars

\* every one-record store a caller can pass: the DID any of the 65536
AllDids == 0..65535

InitDid == \E d \in AllDids : Construct(Dict([did \in {d} |-> <<1>>])) /\ OneServer /\ NoPair

\* the frames a client sends for the DID of the store, big-endian on the wire:
\* a read, and a write of one byte
DidRequests ==
    UNION { { <<34, d \div 256, d % 256>>, <<46, d \div 256, d % 256, 65>> } :
            d \in DOMAIN data }

RunDid == Step({Frame(q) : q \in DidRequests})

NextDid == RunDid

SpecDid == InitDid /\ [][NextDid]_vars

--------------------------------------------------------------------------
(* main(): the driver loop, run() in two parts, and the signal handler *)

\* mutant: "while True", the flag is never looked at
MainWhile_forever ==
    /\ pc = "while"
    /\ pc' = "run"
    /\ UNCHANGED <<serverVars, exit_flag, pending, late_steps, processVars, pairVars>>

\* while not exit_flag.is_set(): ... print('UDS Server stopped!')
MainWhile ==
    /\ pc = "while"
    /\ pc' = IF exit_flag THEN "stopped" ELSE "run"
    /\ UNCHANGED <<serverVars, exit_flag, pending, late_steps, processVars, pairVars>>

\* uds_server.run() is called and blocks in self.server.recv()
MainCallRun ==
    /\ pc = "run"
    /\ pc' = "recv"
    /\ late_steps' = IF exit_flag THEN late_steps + 1 ELSE late_steps
    /\ UNCHANGED <<serverVars, exit_flag, pending, processVars, pairVars>>

\* self.server.recv() ends, within its timeout: a frame or TimeoutError
RunRecv ==
    /\ pc = "recv"
    /\ \E r \in RecvOutcomes :
        /\ recv' = r
        /\ repeated' = (r = recv)
        /\ pending' = IF r.kind = "frame" THEN pending + 1 ELSE pending
    /\ pc' = "rest"
    /\ UNCHANGED <<data, sent, raised, called, initial, written, registry,
                   last_write, exit_flag, late_steps, processVars, pairVars>>

\* the rest of run(): what it does with the outcome of recv(), sends included
RunRest ==
    /\ pc = "rest"
    /\ \E st \in {run(Self, recv)} :
        /\ Becomes(st)
        /\ pending' = pending - Len(st.sent)
        /\ pc' = IF st.raised = "none" THEN "sleep" ELSE "crashed"
    /\ UNCHANGED <<recv, repeated, exit_flag, late_steps, processVars, pairVars>>

\* time.sleep(0.1)
MainSleep ==
    /\ pc = "sleep"
    /\ pc' = "while"
    /\ UNCHANGED <<serverVars, exit_flag, pending, late_steps, processVars, pairVars>>

\* signal_handler: SIGINT or SIGTERM delivered to the living process
signal_handler ==
    /\ pc \notin {"stopped", "crashed"}
    /\ ~exit_flag
    /\ exit_flag' = TRUE
    /\ UNCHANGED <<serverVars, pc, pending, late_steps, processVars, pairVars>>

NextMain ==
    \/ MainWhile
    \/ MainCallRun
    \/ RunRecv
    \/ RunRest
    \/ MainSleep
    \/ signal_handler

SpecMain == Init /\ [][NextMain]_vars

\* the process keeps running and recv() returns within its timeout; signals
\* come or not
FairSpecMain ==
    /\ SpecMain
    /\ WF_vars(MainWhile)
    /\ WF_vars(MainCallRun)
    /\ WF_vars(RunRecv)
    /\ WF_vars(RunRest)
    /\ WF_vars(MainSleep)

--------------------------------------------------------------------------
(* uds_server/__init__.py: the server class of the uds_server command *)

\* UDSServer.ServiceID, the class's own enumeration
standalone_ServiceID == {16, 17, 34, 42, 44, 46, 47, 49, 52, 54, 53, 55, 39, 40}

\* UDSServer.dummy_data, the class attribute: 0x2001 .. 0x2005 and 0xF190
standalone_dummy_data ==
    [did \in {8193, 8194, 8195, 8196, 8197, 61840} |->
        CASE did = 8193  -> <<1, 2, 3, 4, 5, 6, 7, 8>>
          [] did = 8194  -> Repeat(3, 2)
          [] did = 8195  -> Repeat(40, 3)
          [] did = 8196  -> Repeat(50, 4)
          [] did = 8197  -> Repeat(200, 5)
          [] did = 61840 -> VIN]

\* self.service_handlers
standalone_service_handlers ==
    [sid \in {READ_DATA_BY_IDENTIFIER, WRITE_DATA_BY_IDENTIFIER} |->
        IF sid = READ_DATA_BY_IDENTIFIER THEN "_handle_read_data_by_id"
                                         ELSE "_handle_write_data_by_id"]

\* st is the server object; st.dummy_data is the dict that self.dummy_data
\* evaluates to
standalone_send_negative_response(st, rej_sid) ==
    IF to_bytes_overflows(rej_sid, 1) THEN Raise(st, "OverflowError")
    ELSE Send(st, <<127>> \o to_bytes(rej_sid, 1) \o <<16>>)

standalone_get_did_raises(payload) ==
    ~IndexInRange(payload, 1) \/ ~IndexInRange(payload, 2)

standalone_get_did(payload) == (payload[2] * 256) + payload[3]

standalone_handle_read_data_by_id(st, req) ==
    IF standalone_get_did_raises(req) THEN Raise(st, "IndexError")
    ELSE LET did == standalone_get_did(req)
         IN  IF did \notin DOMAIN st.dummy_data
             THEN standalone_send_negative_response(st, req[1])
             ELSE Send(st, <<98>> \o to_bytes(did, 2) \o st.dummy_data[did])

\* mutant: the written bytes are appended to the record, dummy_data[did] += req[3:]
standalone_handle_write_extend(st, req) ==
    IF standalone_get_did_raises(req) THEN Raise(st, "IndexError")
    ELSE LET did == standalone_get_did(req)
         IN  IF did \notin DOMAIN st.dummy_data
             THEN standalone_send_negative_response(st, req[1])
             ELSE Send([st EXCEPT
                          !.dummy_data = DictSetItem(@, did, @[did] \o SliceFrom3(req))],
                       <<110>> \o to_bytes(did, 2))

standalone_handle_write_data_by_id(st, req) ==
    IF standalone_get_did_raises(req) THEN Raise(st, "IndexError")
    ELSE LET did == standalone_get_did(req)
         IN  IF did \notin DOMAIN st.dummy_data
             THEN standalone_send_negative_response(st, req[1])
             ELSE Send([st EXCEPT
                          !.dummy_data = DictSetItem(@, did, SliceFrom3(req))],
                       <<110>> \o to_bytes(did, 2))

standalone_run(st, r) ==
    IF r.kind = "timeout" THEN st
    ELSE LET req == r.raw
         IN  IF ~IndexInRange(req, 0) THEN Raise(st, "IndexError")
             ELSE IF req[1] \notin standalone_ServiceID
             THEN standalone_send_negative_response(st, req[1])
             ELSE IF req[1] \notin DOMAIN standalone_service_handlers
             THEN standalone_send_negative_response(st, req[1])
             ELSE IF standalone_service_handlers[req[1]] = "_handle_read_data_by_id"
             THEN standalone_handle_read_data_by_id(st, req)
             ELSE standalone_handle_write_data_by_id(st, req)

--------------------------------------------------------------------------
(* Two servers created in one process, both of the one class or both of the
   other. A dict is an object: an item assignment through one name that is
   bound to it is seen through every name bound to it. *)

Instances == {1, 2}

\* the dict of the module's docstring, which hands it to two constructors,
\* 0x1234 replaced by 0x0090
docstring_uds_data ==
    [did \in {144, 22136} |-> IF did = 144 THEN <<1, 2, 3, 4>> ELSE <<5, 6, 7, 8>>]

\* the dict objects of the process: the class attribute of each class, the
\* caller's dict, and the deep copy a library constructor makes of DUMMY_DATA
InitialHeap ==
    [DUMMY_DATA |-> DUMMY_DATA,
     dummy_data |-> standalone_dummy_data,
     uds_data   |-> docstring_uds_data,
     deepcopy1  |-> DUMMY_DATA,
     deepcopy2  |-> DUMMY_DATA]

\* the object self.data of library server i is bound to: a deep copy of its
\* own when uds_data is None, the caller's dict itself otherwise
LibraryStore(i, uds_data) ==
    IF uds_data.is_none THEN (IF i = 1 THEN "deepcopy1" ELSE "deepcopy2")
    ELSE "uds_data"

\* the object self.dummy_data evaluates to: __init__ binds no attribute of
\* that name, the lookup ends at the class attribute
StandaloneStore(i) == "dummy_data"

\* the built-in default data set of the class
DefaultOf(im) == IF im = "library" THEN "DUMMY_DATA" ELSE "dummy_data"

\* the frames the two servers receive: reads and writes of 0x0090 and 0xF190
TwoRequests ==
    {q \in Requests : /\ Len(q) >= 3
                      /\ q[1] \in {READ_DATA_BY_IDENTIFIER, WRITE_DATA_BY_IDENTIFIER}
                      /\ q[2] * 256 + q[3] \in {144, 61840}}

TwoRecvOutcomes == {TimedOut} \cup {Frame(q) : q \in TwoRequests}

\* two library servers, each given None or the caller's dict
InitLibrary ==
    \E a1, a2 \in {None, Dict(docstring_uds_data)} :
        /\ impl = "library"
        /\ store = <<LibraryStore(1, a1), LibraryStore(2, a2)>>

\* two servers of the uds_server command's class
InitStandalone ==
    /\ impl = "standalone"
    /\ store = <<StandaloneStore(1), StandaloneStore(2)>>

InitTwo ==
    /\ Construct(None)
    /\ NoPair
    /\ heap = InitialHeap
    /\ actor = 0
    /\ (InitLibrary \/ InitStandalone)

\* library server i as its run() finds it, the dict objects being h
LibrarySelf(h, i) ==
    [data |-> h[store[i]], sent |-> <<>>, raised |-> "none", called |-> "none",
     written |-> {}, service_handlers |-> service_handlers,
     last_write |-> EmptyDict]

\* standalone server i as its run() finds it, the dict objects being h
StandaloneSelf(h, i) ==
    [dummy_data |-> h[store[i]], sent |-> <<>>, raised |-> "none"]

\* one call of run() on server i, of either class: what it sent and raised,
\* and the dict its store is bound to as the call leaves it
RunOn(h, i, r) ==
    IF impl = "library"
    THEN LET st == run(LibrarySelf(h, i), r)
         IN  [sent |-> st.sent, raised |-> st.raised, dict |-> st.data]
    ELSE LET st == standalone_run(StandaloneSelf(h, i), r)
         IN  [sent |-> st.sent, raised |-> st.raised, dict |-> st.dummy_data]

\* the process calls run() on server i; an exception that left an earlier
\* call ended the process
TwoRun(i) ==
    /\ raised = "none"
    /\ \E r \in TwoRecvOutcomes :
        \E out \in {RunOn(heap, i, r)} :
            /\ recv' = r
            /\ sent' = out.sent
            /\ raised' = out.raised
            /\ heap' = [heap EXCEPT ![store[i]] = out.dict]
    /\ actor' = i
    /\ UNCHANGED <<data, called, initial, written, registry, last_write,
                   repeated, driverVars, impl, store, pairVars>>

RunFirst == TwoRun(1)

RunSecond == TwoRun(2)

NextTwo == RunFirst \/ RunSecond

SpecTwo == InitTwo /\ [][NextTwo]_vars

--------------------------------------------------------------------------
(* The two server classes side by side: one server of each, started with
   the same store contents, each fed the same outcomes of recv() *)

\* the number of outcomes of recv() fed to the two servers
MaxFrames == 3

\* the store contents the two servers start with: either class's built-in
\* default, or the dict of the library module's docstring
PairStores == {DUMMY_DATA, standalone_dummy_data, docstring_uds_data}

\* the frames fed: empty and short ones, an unknown SID, a SID without a
\* handler, and reads and writes of DIDs in one, two or none of PairStores
PairRequests ==
    {<<>>, <<34>>, <<46, 0>>, <<153, 0, 1>>, <<16, 241, 144>>}
    \cup {<<34, hi, lo>> : hi \in HiBytes, lo \in LoBytes}
    \cup {<<46, hi, lo, 65>> : hi \in HiBytes, lo \in LoBytes}
    \cup {<<34, 32, 1>>, <<46, 32, 1>>, <<46, 241, 144, 65, 65>>}

PairRecvOutcomes == {TimedOut} \cup {Frame(q) : q \in PairRequests}

InitPair ==
    \E d \in PairStores :
        /\ Construct(Dict(d))
        /\ OneServer
        /\ library = [data |-> d, raised |-> "none", out |-> <<>>]
        /\ standalone = [dummy_data |-> d, raised |-> "none", out |-> <<>>]
        /\ fed = <<>>

\* the library server of the pair as its run() finds it
PairLibrarySelf ==
    [data |-> library.data, sent |-> <<>>, raised |-> "none", called |-> "none",
     written |-> {}, service_handlers |-> service_handlers,
     last_write |-> EmptyDict]

\* the standalone server of the pair as its run() finds it
PairStandaloneSelf ==
    [dummy_data |-> standalone.dummy_data, sent |-> <<>>, raised |-> "none"]

\* each driver loop calls run() and recv() ends the same way in both; a server
\* whose run() raised earlier takes no further step
PairRun ==
    /\ Len(fed) < MaxFrames
    /\ ~(library.raised # "none" /\ standalone.raised # "none")
    /\ \E r \in PairRecvOutcomes :
        /\ fed' = Append(fed, r)
        /\ \E st \in {run(PairLibrarySelf, r)} :
            library' = IF library.raised # "none" THEN library
                       ELSE [data |-> st.data, raised |-> st.raised,
                             out |-> library.out \o st.sent]
        /\ \E st \in {standalone_run(PairStandaloneSelf, r)} :
            standalone' = IF standalone.raised # "none" THEN standalone
                          ELSE [dummy_data |-> st.dummy_data, raised |-> st.raised,
                                out |-> standalone.out \o st.sent]
    /\ UNCHANGED <<serverVars, driverVars, processVars>>

NextPair == PairRun

SpecPair == InitPair /\ [][NextPair]_vars

--------------------------------------------------------------------------
(* Reading a request and a response off the wire, as section 6 lays them out *)

\* the last step received a frame
GotFrame == recv.kind = "frame"

\* a frame that carries a SID and a DID
HasDid(raw) == Len(raw) >= 3

\* the 16-bit identifier at offsets 1-2, big-endian
DidOf(raw) == raw[2] * 256 + raw[3]

IsReadRequest(raw) == HasDid(raw) /\ raw[1] = 34

IsWriteRequest(raw) == HasDid(raw) /\ raw[1] = 46

\* exactly one response was sent, and it is `frame`
SentExactly(s, frame) == s = <<frame>>

NegativeResponse(rej_sid) == <<127, rej_sid, 16>>

--------------------------------------------------------------------------
(* C1 - C10 *)

\* C1: write-then-read consistency. For every DID in the store and every
\* payload V (the empty one included), a step that processes 0x2E DID V
\* followed by a step that processes 0x22 DID sends 0x62 DID V.
C1_WriteThenRead ==
    [][ \A hi \in HiBytes, lo \in LoBytes, V \in Payloads :
          ( /\ hi * 256 + lo \in DOMAIN data
            /\ recv = Frame(<<46, hi, lo>> \o V)
            /\ recv' = Frame(<<34, hi, lo>>) )
          => SentExactly(sent', <<98, hi, lo>> \o V) ]_vars

\* a read of 0xF190 answered with a written two-byte value
C1_Witness ==
    /\ initial = DUMMY_DATA
    /\ recv = Frame(<<34, 241, 144>>)
    /\ 61840 \in written
    /\ data[61840] = <<65, 65>>
    /\ sent = << <<98, 241, 144, 65, 65>> >>

\* C2: no frame crashes the server. Whatever frame recv() returns, the step
\* ends without an exception, and unless the frame is a read or write of a
\* DID in the store, exactly one three-byte Negative Response 0x7F .. is sent.
C2_NeverCrashes ==
    GotFrame =>
        /\ raised = "none"
        /\ ~( (IsReadRequest(recv.raw) \/ IsWriteRequest(recv.raw))
              /\ DidOf(recv.raw) \in DOMAIN data )
           => /\ Len(sent) = 1
              /\ Len(sent[1]) = 3
              /\ sent[1][1] = 127
              /\ (Len(recv.raw) >= 1 => sent[1][2] = recv.raw[1])

\* C3: a write to a DID of the store changes the record under that DID only.
C3_WriteFrameEffect ==
    [][ ( /\ recv'.kind = "frame"
          /\ IsWriteRequest(recv'.raw)
          /\ DidOf(recv'.raw) \in DOMAIN data )
        => \A other \in DOMAIN data \ {DidOf(recv'.raw)} :
                other \in DOMAIN data' /\ data'[other] = data[other] ]_vars

\* a write that changed 0xF190 while 0x0001 holds an earlier written value
C3_Witness ==
    /\ initial = DUMMY_DATA
    /\ GotFrame
    /\ recv.raw = <<46, 241, 144, 65>>
    /\ data[61840] = <<65>>
    /\ data[1] = <<65, 65>>
    /\ data[48] = initial[48]

\* C4: a read 0x22 DID or a write 0x2E DID V of a DID that is not in the store
\* is answered with exactly 0x7F, the request's SID, 0x10 and leaves the store
\* (keys and records) as it was.
C4_DidNotFound ==
    [][ ( /\ recv'.kind = "frame"
          /\ (IsReadRequest(recv'.raw) \/ IsWriteRequest(recv'.raw))
          /\ DidOf(recv'.raw) \notin DOMAIN data )
        => /\ SentExactly(sent', NegativeResponse(recv'.raw[1]))
           /\ data' = data ]_vars

\* a rejected write of 0xF101 with a payload, after an accepted write
C4_Witness ==
    /\ GotFrame
    /\ recv.raw = <<46, 241, 1, 65, 65>>
    /\ 61697 \notin DOMAIN data
    /\ written # {}
    /\ sent = << <<127, 46, 16>> >>

\* C5: a frame whose first byte b is not a value of ServiceID is answered with
\* exactly 0x7F, b, 0x10; no handler is invoked and the store is as it was.
C5_UnknownSid ==
    [][ ( /\ recv'.kind = "frame"
          /\ Len(recv'.raw) >= 1
          /\ recv'.raw[1] \notin ServiceID )
        => /\ SentExactly(sent', NegativeResponse(recv'.raw[1]))
           /\ called' = "none"
           /\ data' = data
           /\ raised' = "none" ]_vars

\* 0x99 0x00 0x01 rejected by a server whose record 0x0001 has been written
C5_Witness ==
    /\ initial = DUMMY_DATA
    /\ GotFrame
    /\ recv.raw = <<153, 0, 1>>
    /\ 1 \in written
    /\ called = "none"
    /\ sent = << <<127, 153, 16>> >>

\* C6: a frame whose first byte is a value of ServiceID other than 0x22 and
\* 0x2E is answered with exactly 0x7F, that value, 0x10, as an unknown SID is,
\* and the store is as it was.
C6_UnregisteredService ==
    [][ ( /\ recv'.kind = "frame"
          /\ Len(recv'.raw) >= 1
          /\ recv'.raw[1] \in ServiceID \ {34, 46} )
        => /\ SentExactly(sent', NegativeResponse(recv'.raw[1]))
           /\ called' = "none"
           /\ data' = data
           /\ raised' = "none" ]_vars

\* 0x10 0x00 0x01 rejected by a server whose record 0x0001 has been written
C6_Witness ==
    /\ initial = DUMMY_DATA
    /\ GotFrame
    /\ recv.raw = <<16, 0, 1>>
    /\ 1 \in written
    /\ called = "none"
    /\ sent = << <<127, 16, 16>> >>

\* C7: a step whose recv() times out sends nothing, leaves the store as it
\* was and raises nothing, and the step after it answers a read of a DID of
\* the store with that DID's record.
C7_TimeoutStep ==
    [][ /\ recv'.kind = "timeout"
          => (sent' = <<>> /\ data' = data /\ raised' = "none" /\ called' = "none")
        /\ \A hi \in HiBytes, lo \in LoBytes :
             ( /\ recv.kind = "timeout"
               /\ hi * 256 + lo \in DOMAIN data
               /\ recv' = Frame(<<34, hi, lo>>) )
             => SentExactly(sent', <<98, hi, lo>> \o data[hi * 256 + lo]) ]_vars

\* a timeout of a server that holds a written record
C7_Witness ==
    /\ recv.kind = "timeout"
    /\ written # {}
    /\ data # initial
    /\ sent = <<>>
    /\ raised = "none"

\* C8: a read 0x22 DID of a DID the store held at construction, with no write
\* to that DID accepted since, is answered with exactly 0x62 DID and the
\* record the store held at construction, whatever was processed before.
C8_ReadInitial ==
    \A hi \in HiBytes, lo \in LoBytes :
        ( /\ recv = Frame(<<34, hi, lo>>)
          /\ hi * 256 + lo \in DOMAIN initial
          /\ hi * 256 + lo \notin written )
        => SentExactly(sent, <<98, hi, lo>> \o initial[hi * 256 + lo])

\* the VIN read from the default store after a write to 0x0001
C8_Witness ==
    /\ initial = DUMMY_DATA
    /\ recv = Frame(<<34, 241, 144>>)
    /\ written = {1}
    /\ data[1] # initial[1]
    /\ sent = << <<98, 241, 144>> \o VIN >>

\* C9: a step that processes a frame whose SID is 0x22 leaves the store as it
\* was, and when the frame carries a DID (in the store or not) the step sends
\* exactly one response.
C9_ReadOnly ==
    [][ ( /\ recv'.kind = "frame"
          /\ Len(recv'.raw) >= 1
          /\ recv'.raw[1] = 34 )
        => /\ data' = data
           /\ IsReadRequest(recv'.raw) => (Len(sent') = 1 /\ raised' = "none") ]_vars

\* an answered read of 0x0001 holding a written value
C9_Witness ==
    /\ initial = DUMMY_DATA
    /\ GotFrame
    /\ IsReadRequest(recv.raw)
    /\ DidOf(recv.raw) = 1
    /\ data[1] = <<65>>
    /\ sent = << <<98, 0, 1, 65>> >>

\* C10: a write 0x2E DID V of a DID of the store is answered with exactly the
\* three bytes 0x6E DID, never with V.
C10_WritePositiveResponse ==
    ( /\ GotFrame
      /\ IsWriteRequest(recv.raw)
      /\ DidOf(recv.raw) \in DOMAIN data )
    => SentExactly(sent, <<110, recv.raw[2], recv.raw[3]>>)

\* an accepted write of two bytes to 0xF190
C10_Witness ==
    /\ initial = DUMMY_DATA
    /\ GotFrame
    /\ recv.raw = <<46, 241, 144, 65, 65>>
    /\ data[61840] = <<65, 65>>
    /\ sent = << <<110, 241, 144>> >>

--------------------------------------------------------------------------
(* C11 - C20 *)

\* C11: write idempotence. For every DID of the store and every payload V, a
\* step that processes 0x2E DID V right after a step that processed the same
\* frame leaves the store as the first step left it, the record being V, and
\* sends the positive response the first step sent.
C11_WriteIdempotent ==
    [][ \A hi \in HiBytes, lo \in LoBytes, V \in Payloads :
          ( /\ hi * 256 + lo \in DOMAIN data
            /\ recv = Frame(<<46, hi, lo>> \o V)
            /\ recv' = Frame(<<46, hi, lo>> \o V) )
          => /\ data' = data
             /\ data'[hi * 256 + lo] = V
             /\ sent' = sent
             /\ SentExactly(sent', <<110, hi, lo>>) ]_vars

\* the same two-byte write of 0xF190 processed twice in a row
C11_Witness ==
    /\ initial = DUMMY_DATA
    /\ repeated
    /\ recv = Frame(<<46, 241, 144, 65, 65>>)
    /\ data[61840] = <<65, 65>>
    /\ sent = << <<110, 241, 144>> >>

\* C12: the key set of the store is the key set it had at construction, in
\* every reachable state.
C12_FixedKeySet == DOMAIN data = DOMAIN initial

\* a write of the absent 0xF101 rejected after both writable records were written
C12_Witness ==
    /\ initial = DUMMY_DATA
    /\ GotFrame
    /\ recv.raw = <<46, 241, 1, 65>>
    /\ written = {1, 61840}
    /\ data[1] # initial[1]
    /\ data[61840] # initial[61840]

\* the DIDs whose record differs between two stores
Changed(before, after) ==
    {d \in DOMAIN before \cup DOMAIN after :
        \/ d \notin DOMAIN before
        \/ d \notin DOMAIN after
        \/ before[d] # after[d]}

\* C14: every step sends at most one response and changes at most one record
\* of the store.
C14_StepBound ==
    [][ /\ Len(sent') <= 1
        /\ Cardinality(Changed(data, data')) <= 1 ]_vars

\* a step that sent one response and changed one record
C14_Witness ==
    /\ initial = DUMMY_DATA
    /\ GotFrame
    /\ recv.raw = <<46, 0, 1, 65>>
    /\ written = {1}
    /\ Changed(initial, data) = {1}
    /\ Len(sent) = 1

\* the frames a Read of did on server i is answered with, the dict objects
\* being h
ReadOn(h, i, did) ==
    RunOn(h, i, Frame(<<READ_DATA_BY_IDENTIFIER, did \div 256, did % 256>>)).sent

\* the last step was a Write server `actor` accepted
AcceptedWrite ==
    /\ actor \in Instances
    /\ GotFrame
    /\ IsWriteRequest(recv.raw)
    /\ SentExactly(sent, <<110, recv.raw[2], recv.raw[3]>>)

\* C13: store ownership. A step of one server, an accepted Write included,
\* changes neither the answer of any Read on the other server nor the
\* built-in default data set of the class.
C13_StoreOwnership ==
    [][\A j \in Instances :
          j # actor' =>
              /\ \A did \in {144, 61840} :
                    ReadOn(heap', j, did) = ReadOn(heap, j, did)
              /\ heap'[DefaultOf(impl)] = heap[DefaultOf(impl)]]_vars

\* the part of C13 that holds: library servers that were each given None own
\* their stores, and DUMMY_DATA is never changed
C13_DeepCopiesOwned ==
    [][(impl = "library" /\ store[1] # store[2]) =>
          \A j \in Instances :
              j # actor' =>
                  /\ heap'[store[j]] = heap[store[j]]
                  /\ heap'["DUMMY_DATA"] = heap["DUMMY_DATA"]]_vars

\* a Write accepted by one standalone server has changed the class's default
C13_SharedDefaultWritten ==
    /\ impl = "standalone"
    /\ AcceptedWrite
    /\ heap["dummy_data"] # standalone_dummy_data

\* C15: request/response ordering. While a receive is in progress every
\* frame received before it has been answered, at most one received frame is
\* ever unanswered, and no response is sent beyond the frames received.
C15_Ordering ==
    /\ pending \in {0, 1}
    /\ pc = "recv" => pending = 0

\* the loop is in its next receive after it answered a write
C15_Witness ==
    /\ pc = "recv"
    /\ GotFrame
    /\ IsWriteRequest(recv.raw)
    /\ Len(sent) = 1
    /\ written # {}
    /\ pending = 0

\* C16: cancellation. At most one run() is called with the flag already set,
\* and the loop that ended after the flag was set ended at 'UDS Server
\* stopped!'.
C16_Cancellation ==
    /\ late_steps <= 1
    /\ (exit_flag /\ pc \in {"stopped", "crashed"}) => pc = "stopped"

\* the part of C16 that counts the steps alone
C16_AtMostOneLateStep == late_steps <= 1

\* the loop ends once the flag is set, one way or the other
C16_LoopEnds == exit_flag ~> (pc \in {"stopped", "crashed"})

\* no step is called once the loop has seen the flag
C16_NoStepAfterStopped == [][pc = "stopped" => pc' = "stopped"]_vars

\* C17: the header of a positive response. For every read or write of a DID
\* of the store, byte 0 of the response is byte 0 of the request plus 0x40 and
\* bytes 1-2 of the response are bytes 1-2 of the request (under SpecDid: for
\* each of the 65536 DIDs).
C17_PositiveHeader ==
    ( /\ GotFrame
      /\ (IsReadRequest(recv.raw) \/ IsWriteRequest(recv.raw))
      /\ DidOf(recv.raw) \in DOMAIN data )
    => /\ Len(sent) = 1
       /\ Len(sent[1]) >= 3
       /\ sent[1][1] = recv.raw[1] + 64
       /\ sent[1][2] = recv.raw[2]
       /\ sent[1][3] = recv.raw[3]

\* a write of 0x1234 answered with 0x6E 0x12 0x34
C17_Witness ==
    /\ GotFrame
    /\ recv.raw = <<46, 18, 52, 65>>
    /\ DOMAIN data = {4660}
    /\ data[4660] = <<65>>
    /\ sent = << <<110, 18, 52>> >>

\* C18: the registry maps exactly 0x22 to the read handler and 0x2E to the
\* write handler, in every reachable state.
C18_RegistryImmutable ==
    /\ DOMAIN registry = {34, 46}
    /\ registry[34] = "_handle_read_data_by_id"
    /\ registry[46] = "_handle_write_data_by_id"

\* an unregistered SID rejected after both handlers have served
C18_Witness ==
    /\ initial = DUMMY_DATA
    /\ recv = Frame(<<16, 0, 1>>)
    /\ written = {1, 61840}
    /\ sent = << <<127, 16, 16>> >>
    /\ DOMAIN registry = {34, 46}

\* the record last-write-wins prescribes for d
Expected(d) ==
    IF d \in DOMAIN last_write THEN last_write[d] ELSE initial[d]

\* C19: last write wins. Every record of the store is the payload of the last
\* write accepted for its DID, or the record of construction when none was,
\* and a read 0x22 DID is answered with 0x62 DID and that value.
C19_LastWriteWins ==
    /\ \A d \in DOMAIN data :
         (d \in DOMAIN last_write \/ d \in DOMAIN initial) /\ data[d] = Expected(d)
    /\ \A hi \in HiBytes, lo \in LoBytes :
         ( /\ recv = Frame(<<34, hi, lo>>)
           /\ hi * 256 + lo \in DOMAIN data )
         => SentExactly(sent, <<98, hi, lo>> \o Expected(hi * 256 + lo))

\* 0xF190 read back as written while 0x0001 holds another written value
C19_Witness ==
    /\ initial = DUMMY_DATA
    /\ recv = Frame(<<34, 241, 144>>)
    /\ DOMAIN last_write = {1, 61840}
    /\ last_write[61840] = <<65>>
    /\ last_write[1] = <<65, 65>>
    /\ sent = << <<98, 241, 144, 65>> >>

\* C20: no request is dropped. A step whose recv() returned a frame of at
\* least 3 bytes sent exactly one response, and a step sent no response only
\* when its recv() timed out.
C20_NoRequestDropped ==
    /\ (GotFrame /\ Len(recv.raw) >= 3) => Len(sent) = 1
    /\ (recv.kind # "none" /\ Len(sent) = 0) => recv.kind = "timeout"

\* the first half of C20 alone: a frame of at least 3 bytes is answered once
C20_ThreeBytesAnswered ==
    (GotFrame /\ Len(recv.raw) >= 3) => (Len(sent) = 1 /\ raised = "none")

\* C21: snapshot equivalence. The library server and the standalone server,
\* started with the same store contents and fed the same frames and timeouts,
\* have sent the same sequence of responses and hold the same store contents.
C21_SnapshotEquivalence ==
    /\ library.out = standalone.out
    /\ library.data = standalone.dummy_data

\* the part of the equivalence the claim leaves unsaid: the two run() raise
\* the same exception on the same frame
C21_SameExceptions == library.raised = standalone.raised

\* after a write both accepted, both answered a read
C21_Witness ==
    /\ Len(fed) = MaxFrames
    /\ library.data # initial
    /\ standalone.dummy_data # initial
    /\ Len(library.out) >= 2
    /\ library.out[Len(library.out)][1] = 98
    /\ Len(library.out[Len(library.out)]) > 3

==========================================================================
